---- MODULE Spec2Model ----
(***************************************************************************)
(* Warm call-transfer orchestrator (SessionManager of                      *)
(* agents/call_forwarding.py) as a state machine.                          *)
(*                                                                         *)
(* The program runs on one asyncio event loop: the code between two        *)
(* awaits is one atomic step.  Every invocation of start_transfer,         *)
(* merge_calls or set_supervisor_failed is a task; a task is suspended at  *)
(* an await of an external call (pc names the await), and the step that    *)
(* resumes it carries the outcome of that call (ok, or the call raised).   *)
(* `await self.set_supervisor_failed()` does not yield: its synchronous    *)
(* prefix (status := failed, stop_hold) belongs to the calling step.       *)
(***************************************************************************)
EXTENDS Integers, Sequences, FiniteSets, TLC

VARIABLES
    sip_trunk_id,        \* SIP_TRUNK_ID, "" when unset
    supervisor_contact,  \* SessionManager.supervisor_contact, "" when unset
    customer_status,     \* SessionManager.customer_status
    supervisor_status,   \* SessionManager.supervisor_status
    hold_audio_handle,   \* SessionManager.hold_audio_handle: 0 is None, else index in handles
    handles,             \* every PlayHandle created by background_audio.play
    audio_in,            \* customer_session.input audio enabled
    audio_out,           \* customer_session.output audio enabled
    custClosed,          \* customer_session (assistant leg) is closed
    custCloseCalls,      \* number of customer_session.aclose() calls issued
    history,             \* customer_session.history: the dialogue items so far
    supervisor_room,     \* SessionManager.supervisor_room: 0 is None, else index in rooms
    supervisor_session,  \* SessionManager.supervisor_session: 0 is None, else index in sessions
    rooms,               \* every rtc.Room() created for a consultation
    sessions,            \* every consult-side AgentSession created
    dials,               \* every create_sip_participant request issued
    moves,               \* every move_participant request issued
    supervisorIn,        \* name of the room the supervisor participant is in, "" if none
    tasks,               \* the invocations in flight, oldest first, each with its position
    last,                \* the invocation that returned in the last step, NoTask if none did
    invoked,             \* number of invocations so far
    faults               \* number of external calls that have raised so far

vars == <<sip_trunk_id, supervisor_contact, customer_status, supervisor_status,
          hold_audio_handle, handles, audio_in, audio_out, custClosed, custCloseCalls,
          history, supervisor_room, supervisor_session, rooms, sessions, dials, moves,
          supervisorIn, tasks, last, invoked, faults>>

configVars == <<sip_trunk_id, supervisor_contact>>
holdVars == <<hold_audio_handle, handles, audio_in, audio_out>>
custVars == <<custClosed, custCloseCalls, history>>
consultVars == <<supervisor_room, supervisor_session, rooms, sessions>>
sipVars == <<dials, moves, supervisorIn>>

\* Bounds of the model: invocations in one run, external calls that raise in one run.
MaxTasks == 3
MaxFaults == 1
MaxHandles == 3
MaxTurns == 4

SUPERVISOR_IDENTITY == "supervisor-sip"
customer_room_name == "room-1"
\* the consult room named like the caller's room
consult_room_name_NoSuffix == customer_room_name

consult_room_name == customer_room_name \o "-consult"

HoldFaults == {"none", "input", "output", "play"}
EnableFaults == {"none", "input", "output"}

Quiescent == tasks = <<>>

\* A step of another invocation interleaves with every invocation in flight.
Interleaved(rec) == [rec EXCEPT !.alone = FALSE]

\* kind, pc: the invocation and the await it is suspended at; out: how it returned;
\* nfail: external calls that raised in it; said: what it has spoken to the caller;
\* alone: no other invocation was in flight, began or moved since it began;
\* sfCalls: its calls of set_supervisor_failed; sess: the session it is closing;
\* src: the source room of its move_participant request; ndial, nmove: the create_sip_participant
\* and move_participant requests it has issued; stopped: the playback handle
\* that the stop_hold following its migration found set
NewTask(kind, pc, out) ==
    [kind |-> kind, pc |-> pc, out |-> out, nfail |-> 0, said |-> {},
     alone |-> Quiescent, sfCalls |-> 0, sess |-> 0, src |-> "",
     ndial |-> 0, nmove |-> 0, stopped |-> 0]

NoTask ==
    [kind |-> "none", pc |-> "none", out |-> "", nfail |-> 0, said |-> {},
     alone |-> FALSE, sfCalls |-> 0, sess |-> 0, src |-> "",
     ndial |-> 0, nmove |-> 0, stopped |-> 0]

Remove(seq, i) == SubSeq(seq, 1, i - 1) \o SubSeq(seq, i + 1, Len(seq))

\* a new invocation begins and runs to its first await (or returns at once)
Spawn(rec) ==
    /\ invoked < MaxTasks
    /\ invoked' = invoked + 1
    /\ LET others == [u \in DOMAIN tasks |-> Interleaved(tasks[u])]
       IN IF rec.pc = "done"
          THEN tasks' = others /\ last' = rec
          ELSE tasks' = Append(others, rec) /\ last' = NoTask

\* invocation t resumes and runs to its next await (or returns)
Step(t, rec) ==
    /\ UNCHANGED invoked
    /\ LET all == [u \in DOMAIN tasks |-> IF u = t THEN rec ELSE Interleaved(tasks[u])]
       IN IF rec.pc = "done"
          THEN tasks' = Remove(all, t) /\ last' = rec
          ELSE tasks' = all /\ last' = NoTask

Raise(n) ==
    /\ faults + n <= MaxFaults
    /\ faults' = faults + n

----------------------------------------------------------------------------
(* Hold controller *)

start_hold(f) ==
    /\ audio_in' = (IF f = "input" THEN audio_in ELSE FALSE)
    /\ audio_out' = (IF f \in {"input", "output"} THEN audio_out ELSE FALSE)
    /\ IF f = "none"
       THEN /\ handles' = Append(handles, [stops |-> 0, playing |-> TRUE])
            /\ hold_audio_handle' = Len(handles) + 1
       ELSE UNCHANGED <<handles, hold_audio_handle>>

\* fs: hold_audio_handle.stop() returned; fe: which set_audio_enabled(True) raised
StopArgs(fs, fe) == (hold_audio_handle = 0 => fs) /\ fe \in EnableFaults

StopFaults(fs, fe) == (IF fs THEN 0 ELSE 1) + (IF fe = "none" THEN 0 ELSE 1)

\* handle.stop() called outside a try block: when it raises, stop_hold is left
\* before the handle is cleared and the audio re-enabled
stop_hold_StopEscapes(fs, fe) ==
    /\ StopArgs(fs, fe)
    /\ handles' = IF hold_audio_handle # 0
                  THEN [handles EXCEPT ![hold_audio_handle] =
                           [stops |-> @.stops + 1, playing |-> IF fs THEN FALSE ELSE @.playing]]
                  ELSE handles
    /\ IF fs
       THEN /\ hold_audio_handle' = 0
            /\ audio_in' = (IF fe = "input" THEN audio_in ELSE TRUE)
            /\ audio_out' = (IF fe = "none" THEN TRUE ELSE audio_out)
       ELSE UNCHANGED <<hold_audio_handle, audio_in, audio_out>>

\* stop_hold without `self.hold_audio_handle = None`
stop_hold_KeepHandle(fs, fe) ==
    /\ StopArgs(fs, fe)
    /\ handles' = IF hold_audio_handle # 0
                  THEN [handles EXCEPT ![hold_audio_handle] =
                           [stops |-> @.stops + 1, playing |-> IF fs THEN FALSE ELSE @.playing]]
                  ELSE handles
    /\ UNCHANGED hold_audio_handle
    /\ audio_in' = (IF fe = "input" THEN audio_in ELSE TRUE)
    /\ audio_out' = (IF fe = "none" THEN TRUE ELSE audio_out)

stop_hold(fs, fe) ==
    /\ StopArgs(fs, fe)
    /\ handles' = IF hold_audio_handle # 0
                  THEN [handles EXCEPT ![hold_audio_handle] =
                           [stops |-> @.stops + 1, playing |-> IF fs THEN FALSE ELSE @.playing]]
                  ELSE handles
    /\ hold_audio_handle' = 0
    /\ audio_in' = (IF fe = "input" THEN audio_in ELSE TRUE)
    /\ audio_out' = (IF fe = "none" THEN TRUE ELSE audio_out)

----------------------------------------------------------------------------
(* set_supervisor_failed *)

\* The synchronous prefix, up to the await of the spoken notice.
set_supervisor_failed(fs, fe) ==
    /\ supervisor_status' = "failed"
    /\ stop_hold(fs, fe)

EnterFailed(rec, fs, fe) ==
    [rec EXCEPT !.pc = "sf_say", !.sfCalls = @ + 1, !.nfail = @ + StopFaults(fs, fe)]

\* the notice awaited outside a try block: its exception leaves set_supervisor_failed
sf_say_return_Escapes(t, ok) ==
    /\ tasks[t].pc = "sf_say"
    /\ Raise(IF ok THEN 0 ELSE 1)
    /\ LET rec == [tasks[t] EXCEPT !.said = IF ok THEN @ \cup {"failed"} ELSE @,
                                   !.nfail = IF ok THEN @ ELSE @ + 1]
       IN IF ~ok
          THEN /\ UNCHANGED sessions
               /\ Step(t, [rec EXCEPT !.pc = "done", !.out = "raised"])
          ELSE IF supervisor_session # 0
          THEN /\ sessions' = [sessions EXCEPT ![supervisor_session].closeCalls = @ + 1]
               /\ Step(t, [rec EXCEPT !.pc = "sf_aclose", !.sess = supervisor_session])
          ELSE /\ UNCHANGED sessions
               /\ Step(t, [rec EXCEPT !.pc = "done", !.out = "failed"])
    /\ UNCHANGED <<configVars, customer_status, supervisor_status, holdVars, custVars,
                   supervisor_room, supervisor_session, rooms, sipVars>>

\* customer_session.say("Sorry, I couldn't connect you ...") returned or raised
sf_say_return(t, ok) ==
    /\ tasks[t].pc = "sf_say"
    /\ Raise(IF ok THEN 0 ELSE 1)
    /\ LET rec == [tasks[t] EXCEPT !.said = IF ok THEN @ \cup {"failed"} ELSE @,
                                   !.nfail = IF ok THEN @ ELSE @ + 1]
       IN IF supervisor_session # 0
          THEN /\ sessions' = [sessions EXCEPT ![supervisor_session].closeCalls = @ + 1]
               /\ Step(t, [rec EXCEPT !.pc = "sf_aclose", !.sess = supervisor_session])
          ELSE /\ UNCHANGED sessions
               /\ Step(t, [rec EXCEPT !.pc = "done", !.out = "failed"])
    /\ UNCHANGED <<configVars, customer_status, supervisor_status, holdVars, custVars,
                   supervisor_room, supervisor_session, rooms, sipVars>>

\* supervisor_session.aclose() returned or raised; the reference is cleared either way
sf_aclose_return(t, ok) ==
    /\ tasks[t].pc = "sf_aclose"
    /\ Raise(IF ok THEN 0 ELSE 1)
    /\ sessions' = [sessions EXCEPT ![tasks[t].sess].closed = IF ok THEN TRUE ELSE @]
    /\ supervisor_session' = 0
    /\ Step(t, [tasks[t] EXCEPT !.pc = "done", !.out = "failed",
                                !.nfail = IF ok THEN @ ELSE @ + 1])
    /\ UNCHANGED <<configVars, customer_status, supervisor_status, holdVars, custVars,
                   supervisor_room, rooms, sipVars>>

\* the task created by the consult room's "disconnected" handler starts running
run_set_supervisor_failed(t, fs, fe) ==
    /\ tasks[t].pc = "sf_start"
    /\ Raise(StopFaults(fs, fe))
    /\ set_supervisor_failed(fs, fe)
    /\ Step(t, EnterFailed(tasks[t], fs, fe))
    /\ UNCHANGED <<configVars, customer_status, custVars, consultVars, sipVars>>

\* SupervisorAgent.voicemail_detected of the agent running in session s (an agent
\* can call its tools once its session has started and until it is closed)
voicemail_detected(s, fs, fe) ==
    /\ s \in DOMAIN sessions
    /\ sessions[s].started /\ ~sessions[s].closed
    /\ Raise(StopFaults(fs, fe))
    /\ set_supervisor_failed(fs, fe)
    /\ Spawn(EnterFailed(NewTask("set_supervisor_failed", "sf_say", ""), fs, fe))
    /\ UNCHANGED <<configVars, customer_status, custVars, consultVars, sipVars>>

\* the consult room r disconnects: its handler schedules set_supervisor_failed
disconnected(r) ==
    /\ r \in DOMAIN rooms
    /\ rooms[r].connected /\ rooms[r].handler
    /\ rooms' = [rooms EXCEPT ![r].connected = FALSE]
    /\ Spawn(NewTask("set_supervisor_failed", "sf_start", ""))
    /\ UNCHANGED <<configVars, customer_status, supervisor_status, holdVars, custVars,
                   supervisor_room, supervisor_session, sessions, sipVars, faults>>

----------------------------------------------------------------------------
(* SupervisorAgent.__init__: the briefing *)

Message(role, text) == [type |-> "message", role |-> role, text |-> text]

\* the items a dialogue history is made of here: a caller turn, an assistant turn,
\* an empty caller turn, the assistant's instructions and a tool call
Turns ==
    {Message("user", "u1"), Message("assistant", "a1"), Message("user", ""),
     Message("system", "rules"),
     [type |-> "function_call", role |-> "", text |-> "transfer_to_human"]}

\* the dialogue that preceded the transfer request
SampleHistory ==
    <<Message("system", "rules"), Message("user", "u1"),
      [type |-> "function_call", role |-> "", text |-> "transfer_to_human"],
      Message("user", ""), Message("assistant", "a1")>>

PLACEHOLDER == "(failed to copy conversation history)"

STANDING_INSTRUCTIONS ==
    "You are a summary agent. Your job is to briefly summarize the customer's issue for a human supervisor. "
    \o "Start by greeting the supervisor, then provide a short summary of the conversation below, and wait for the supervisor "
    \o "to confirm they can take the call. When the supervisor says they are ready, call the tool 'connect_to_customer'.\n\n"
    \o "Conversation history:\n"

\* a copy made without exclude_empty_message
ChatCopy_KeepEmpty(items) ==
    SelectSeq(items, LAMBDA it :
        /\ it.type \notin {"function_call", "function_call_output"}
        /\ ~(it.type = "message" /\ it.role \in {"system", "developer"}))

\* prev_ctx.copy(exclude_empty_message=True, exclude_instructions=True,
\*               exclude_function_call=True)
ChatCopy(items) ==
    SelectSeq(items, LAMBDA it :
        /\ it.type \notin {"function_call", "function_call_output"}
        /\ ~(it.type = "message" /\ it.role \in {"system", "developer"})
        /\ ~(it.type = "message" /\ it.text = ""))

\* one pass of the loop body
RenderTurn(msg) ==
    IF msg.role = "user"
    THEN "Customer: " \o msg.text \o "\n"
    ELSE "Assistant: " \o msg.text \o "\n"

\* the loop over context_copy.items, prev_convo being what is built so far
RECURSIVE Briefing(_, _)
Briefing(items, prev_convo) ==
    IF items = <<>>
    THEN prev_convo
    ELSE Briefing(Tail(items), prev_convo \o RenderTurn(Head(items)))

\* what can raise in the try block: -1 the copy, k > 0 reading the k-th copied
\* item; 0 nothing
BriefFaults(h) == -1 .. Len(ChatCopy(h))

\* the except clause appending the placeholder to what was built so far
prev_convo_KeepPartial(h, bf) ==
    IF bf = 0 THEN Briefing(ChatCopy(h), "")
    ELSE IF bf = -1 THEN PLACEHOLDER
    ELSE Briefing(SubSeq(ChatCopy(h), 1, bf - 1), "") \o PLACEHOLDER

\* prev_convo after the try/except
prev_convo(h, bf) ==
    IF bf = 0 THEN Briefing(ChatCopy(h), "") ELSE PLACEHOLDER

\* SupervisorAgent(prev_ctx = h)
SupervisorAgent(h, bf) ==
    [prev_ctx |-> h, instructions |-> STANDING_INSTRUCTIONS \o prev_convo(h, bf)]

\* the AgentSession created for a consultation, with the agent built for it
ConsultSession(bf) ==
    [started |-> FALSE, closed |-> FALSE, closeCalls |-> 0,
     agent |-> SupervisorAgent(history, bf)]

----------------------------------------------------------------------------
(* start_transfer *)

\* failed made sticky: no new attempt once an attempt has failed
TransferGateOpen_FailedSticky == customer_status = "active" /\ supervisor_status # "failed"

\* the gate reading supervisor_status in place of customer_status
TransferGateOpen_BySupervisor == supervisor_status # "summarizing"

\* the gate forgotten: a transfer is accepted whatever customer_status is
TransferGateOpen_Always == TRUE

TransferGateOpen == customer_status = "active"

\* the configuration check forgotten
TransferConfigured_Always == TRUE

TransferConfigured == sip_trunk_id # "" /\ supervisor_contact # ""

\* Assistant.transfer_to_human calls start_transfer (the assistant can call its tool
\* while its session is open); f: the call of start_hold that raised, if any

start_transfer(f) ==
    /\ ~custClosed
    /\ IF ~TransferGateOpen
       THEN /\ f = "none"
            /\ Spawn(NewTask("start_transfer", "done", "not_active"))
            /\ UNCHANGED <<customer_status, holdVars, faults>>
       ELSE IF ~TransferConfigured
       THEN /\ f = "none"
            /\ Spawn(NewTask("start_transfer", "unavail_say", ""))
            /\ UNCHANGED <<customer_status, holdVars, faults>>
       ELSE /\ customer_status' = "escalated"
            /\ start_hold(f)
            /\ Raise(IF f = "none" THEN 0 ELSE 1)
            /\ Spawn(IF f = "none"
                     THEN NewTask("start_transfer", "hold_say", "")
                     ELSE [NewTask("start_transfer", "done", "raised")
                              EXCEPT !.nfail = 1])
    /\ UNCHANGED <<configVars, supervisor_status, custVars, consultVars, sipVars>>

\* customer_session.say("Sorry, transfer is unavailable right now.") returned or raised
unavailable_say_return(t, ok) ==
    /\ tasks[t].pc = "unavail_say"
    /\ Raise(IF ok THEN 0 ELSE 1)
    /\ Step(t, IF ok
               THEN [tasks[t] EXCEPT !.pc = "done", !.out = "unconfigured",
                                     !.said = @ \cup {"unavailable"}]
               ELSE [tasks[t] EXCEPT !.pc = "done", !.out = "raised",
                                     !.nfail = @ + 1])
    /\ UNCHANGED <<configVars, customer_status, supervisor_status, holdVars, custVars,
                   consultVars, sipVars>>

\* the except clause without `self.customer_status = "active"`
transfer_failed_NoReset(t, call, fs, fe) ==
    /\ Raise(1 + StopFaults(fs, fe))
    /\ UNCHANGED customer_status
    /\ set_supervisor_failed(fs, fe)
    /\ Step(t, EnterFailed([tasks[t] EXCEPT !.nfail = @ + 1, !.said = @ \cup {"hold"}],
                            fs, fe))

\* the except clause of start_transfer, entered because `call` raised
transfer_failed(t, call, fs, fe) ==
    /\ Raise(1 + StopFaults(fs, fe))
    /\ customer_status' = "active"
    /\ set_supervisor_failed(fs, fe)
    /\ Step(t, EnterFailed([tasks[t] EXCEPT !.nfail = @ + 1, !.said = @ \cup {"hold"}],
                            fs, fe))

\* customer_session.say("Please hold ...") returned or raised; on return the try
\* block begins: Room(), the access token (tok: it could be built), connect issued
hold_say_return(t, ok, tok, fs, fe) ==
    /\ tasks[t].pc = "hold_say"
    /\ IF ~ok
       THEN /\ tok /\ fs /\ fe = "none"
            /\ Raise(1)
            /\ Step(t, [tasks[t] EXCEPT !.pc = "done", !.out = "raised",
                                        !.nfail = @ + 1])
            /\ UNCHANGED <<customer_status, supervisor_status, holdVars,
                           supervisor_room, rooms>>
       ELSE /\ rooms' = Append(rooms, [name |-> "", connected |-> FALSE, handler |-> FALSE])
            /\ supervisor_room' = Len(rooms) + 1
            /\ IF tok
               THEN /\ fs /\ fe = "none"
                    /\ Step(t, [tasks[t] EXCEPT !.pc = "connect", !.said = @ \cup {"hold"}])
                    /\ UNCHANGED <<customer_status, supervisor_status, holdVars, faults>>
               ELSE transfer_failed(t, "token", fs, fe)
    /\ UNCHANGED <<configVars, custVars, supervisor_session, sessions, sipVars>>

\* supervisor_room.connect returned or raised; on return the disconnected handler
\* is registered, the consult AgentSession and the SupervisorAgent are built (bf:
\* what raised while the briefing was built) and supervisor_session.start is issued
connect_return(t, ok, bf, fs, fe) ==
    /\ tasks[t].pc = "connect"
    /\ IF ok
       THEN /\ fs /\ fe = "none"
            /\ bf \in BriefFaults(history)
            /\ Raise(IF bf = 0 THEN 0 ELSE 1)
            /\ rooms' = [rooms EXCEPT ![supervisor_room] =
                            [name |-> consult_room_name, connected |-> TRUE, handler |-> TRUE]]
            /\ sessions' = Append(sessions, ConsultSession(bf))
            /\ supervisor_session' = Len(sessions) + 1
            /\ Step(t, [tasks[t] EXCEPT !.pc = "agent_start",
                                        !.nfail = @ + (IF bf = 0 THEN 0 ELSE 1)])
            /\ UNCHANGED <<customer_status, supervisor_status, holdVars>>
       ELSE /\ bf = 0
            /\ transfer_failed(t, "connect", fs, fe)
            /\ UNCHANGED <<rooms, sessions, supervisor_session>>
    /\ UNCHANGED <<configVars, custVars, supervisor_room, sipVars>>

DialRequest ==
    [sip_trunk_id |-> sip_trunk_id,
     sip_call_to |-> supervisor_contact,
     room_name |-> consult_room_name,
     participant_identity |-> SUPERVISOR_IDENTITY,
     wait_until_answered |-> TRUE]

\* supervisor_session.start returned or raised; on return the dial is issued
agent_start_return(t, ok, fs, fe) ==
    /\ tasks[t].pc = "agent_start"
    /\ IF ok
       THEN /\ fs /\ fe = "none"
            /\ sessions' = [sessions EXCEPT ![supervisor_session].started = TRUE]
            /\ dials' = Append(dials, DialRequest)
            /\ Step(t, [tasks[t] EXCEPT !.pc = "dial", !.ndial = @ + 1])
            /\ UNCHANGED <<customer_status, supervisor_status, holdVars, faults>>
       ELSE /\ transfer_failed(t, "agent_start", fs, fe)
            /\ UNCHANGED <<sessions, dials>>
    /\ UNCHANGED <<configVars, custVars, supervisor_room, supervisor_session, rooms,
                   moves, supervisorIn>>

\* create_sip_participant returned (the supervisor answered) or raised
dial_return(t, ok, fs, fe) ==
    /\ tasks[t].pc = "dial"
    /\ IF ok
       THEN /\ fs /\ fe = "none"
            /\ supervisorIn' = consult_room_name
            /\ supervisor_status' = "summarizing"
            /\ Step(t, [tasks[t] EXCEPT !.pc = "done", !.out = "summarizing"])
            /\ UNCHANGED <<customer_status, holdVars, faults>>
       ELSE /\ transfer_failed(t, "dial", fs, fe)
            /\ UNCHANGED supervisorIn
    /\ UNCHANGED <<configVars, custVars, consultVars, dials, moves>>

----------------------------------------------------------------------------
(* merge_calls *)

\* the summarizing precondition forgotten
MergeAccepted_Always == TRUE

MergeAccepted == supervisor_status = "summarizing"

\* self.supervisor_room and self.supervisor_room.name and self.customer_room and
\* self.customer_room.name: a Room object is truthy, an unset name is ""
RoomsValid ==
    /\ supervisor_room # 0
    /\ rooms[supervisor_room].name # ""
    /\ customer_room_name # ""

MoveRequest ==
    [room |-> rooms[supervisor_room].name,
     identity |-> SUPERVISOR_IDENTITY,
     destination_room |-> customer_room_name]

\* precondition failure routed to the recovery, as for missing rooms
merge_rejected_Fails(fs, fe) ==
    /\ Raise(StopFaults(fs, fe))
    /\ set_supervisor_failed(fs, fe)
    /\ Spawn(EnterFailed(NewTask("merge_calls", "sf_say", ""), fs, fe))
    /\ UNCHANGED moves

\* precondition failure of merge_calls: logged, nothing else
merge_rejected(fs, fe) ==
    /\ fs /\ fe = "none"
    /\ Spawn(NewTask("merge_calls", "done", "not_summarizing"))
    /\ UNCHANGED <<supervisor_status, holdVars, moves, faults>>

\* the except clause of merge_calls, entered because `call` raised
merge_failed(t, call, fs, fe) ==
    /\ Raise(1 + StopFaults(fs, fe))
    /\ set_supervisor_failed(fs, fe)
    /\ Step(t, EnterFailed([tasks[t] EXCEPT !.nfail = @ + 1], fs, fe))

\* SupervisorAgent.connect_to_customer of the agent running in session s calls
\* merge_calls; when accepted, move_participant is issued
merge_calls(s, fs, fe) ==
    /\ s \in DOMAIN sessions
    /\ sessions[s].started /\ ~sessions[s].closed
    /\ IF ~MergeAccepted
       THEN merge_rejected(fs, fe)
       ELSE IF ~RoomsValid
       THEN /\ Raise(StopFaults(fs, fe))
            /\ set_supervisor_failed(fs, fe)
            /\ Spawn(EnterFailed(NewTask("merge_calls", "sf_say", ""), fs, fe))
            /\ UNCHANGED moves
       ELSE /\ fs /\ fe = "none"
            /\ moves' = Append(moves, MoveRequest)
            /\ Spawn([NewTask("merge_calls", "move", "")
                         EXCEPT !.src = MoveRequest.room, !.nmove = @ + 1])
            /\ UNCHANGED <<supervisor_status, holdVars, faults>>
    /\ UNCHANGED <<configVars, customer_status, custVars, consultVars, dials, supervisorIn>>

\* a failed migration swallowed: merge_calls goes on as if it had succeeded
move_return_Swallow(t, ok, fs, fe) ==
    /\ tasks[t].pc = "move"
    /\ ok => supervisorIn = tasks[t].src
    /\ supervisorIn' = (IF ok THEN customer_room_name ELSE supervisorIn)
    /\ Raise((IF ok THEN 0 ELSE 1) + StopFaults(fs, fe))
    /\ stop_hold(fs, fe)
    /\ Step(t, [tasks[t] EXCEPT !.pc = "farewell", !.stopped = hold_audio_handle,
                                !.nfail = @ + (IF ok THEN 0 ELSE 1) + StopFaults(fs, fe)])
    /\ UNCHANGED <<configVars, customer_status, supervisor_status, custVars, consultVars,
                   dials, moves>>

\* move_participant returned or raised; it can only succeed while the supervisor
\* participant is in the source room.  On return stop_hold runs and the farewell
\* is spoken.
move_return(t, ok, fs, fe) ==
    /\ tasks[t].pc = "move"
    /\ IF ok
       THEN /\ supervisorIn = tasks[t].src
            /\ supervisorIn' = customer_room_name
            /\ Raise(StopFaults(fs, fe))
            /\ stop_hold(fs, fe)
            /\ Step(t, [tasks[t] EXCEPT !.pc = "farewell", !.stopped = hold_audio_handle,
                                        !.nfail = @ + StopFaults(fs, fe)])
            /\ UNCHANGED supervisor_status
       ELSE /\ merge_failed(t, "move", fs, fe)
            /\ UNCHANGED supervisorIn
    /\ UNCHANGED <<configVars, customer_status, custVars, consultVars, dials, moves>>

\* customer_session.say("You are now connected ...") returned or raised; on return
\* customer_session.aclose() is issued
farewell_return(t, ok, fs, fe) ==
    /\ tasks[t].pc = "farewell"
    /\ IF ok
       THEN /\ fs /\ fe = "none"
            /\ custCloseCalls' = custCloseCalls + 1
            /\ Step(t, [tasks[t] EXCEPT !.pc = "cust_aclose", !.said = @ \cup {"farewell"}])
            /\ UNCHANGED <<supervisor_status, holdVars, faults>>
       ELSE /\ merge_failed(t, "farewell", fs, fe)
            /\ UNCHANGED custCloseCalls
    /\ UNCHANGED <<configVars, customer_status, custClosed, history, consultVars, sipVars>>

\* customer_session.aclose() returned or raised (closed: whether a raising close
\* still closed the leg); on return the consult agent session is closed if set
cust_aclose_return(t, ok, closed, fs, fe) ==
    /\ tasks[t].pc = "cust_aclose"
    /\ IF ok
       THEN /\ closed /\ fs /\ fe = "none"
            /\ custClosed' = TRUE
            /\ IF supervisor_session # 0
               THEN /\ sessions' = [sessions EXCEPT ![supervisor_session].closeCalls = @ + 1]
                    /\ Step(t, [tasks[t] EXCEPT !.pc = "sup_aclose", !.sess = supervisor_session])
                    /\ UNCHANGED supervisor_status
               ELSE /\ supervisor_status' = "merged"
                    /\ Step(t, [tasks[t] EXCEPT !.pc = "done", !.out = "merged"])
                    /\ UNCHANGED sessions
            /\ UNCHANGED <<holdVars, faults>>
       ELSE /\ custClosed' = (custClosed \/ closed)
            /\ merge_failed(t, "cust_aclose", fs, fe)
            /\ UNCHANGED sessions
    /\ UNCHANGED <<configVars, customer_status, custCloseCalls, history, supervisor_room,
                   supervisor_session, rooms, sipVars>>

\* the reference to the closed consult agent session kept
sup_aclose_return_KeepRef(t, ok) ==
    /\ tasks[t].pc = "sup_aclose"
    /\ Raise(IF ok THEN 0 ELSE 1)
    /\ sessions' = [sessions EXCEPT ![tasks[t].sess].closed = IF ok THEN TRUE ELSE @]
    /\ supervisor_status' = "merged"
    /\ Step(t, [tasks[t] EXCEPT !.pc = "done", !.out = "merged",
                                !.nfail = IF ok THEN @ ELSE @ + 1])
    /\ UNCHANGED <<configVars, customer_status, holdVars, custVars, supervisor_room,
                   supervisor_session, rooms, sipVars>>

\* supervisor_session.aclose() of merge_calls returned or raised (swallowed)
sup_aclose_return(t, ok) ==
    /\ tasks[t].pc = "sup_aclose"
    /\ Raise(IF ok THEN 0 ELSE 1)
    /\ sessions' = [sessions EXCEPT ![tasks[t].sess].closed = IF ok THEN TRUE ELSE @]
    /\ supervisor_session' = 0
    /\ supervisor_status' = "merged"
    /\ Step(t, [tasks[t] EXCEPT !.pc = "done", !.out = "merged",
                                !.nfail = IF ok THEN @ ELSE @ + 1])
    /\ UNCHANGED <<configVars, customer_status, holdVars, custVars, supervisor_room,
                   rooms, sipVars>>

----------------------------------------------------------------------------
\* SessionManager.__init__
Constructed ==
    /\ customer_status = "active"
    /\ supervisor_status = "inactive"
    /\ hold_audio_handle = 0
    /\ handles = <<>>
    /\ audio_in = TRUE
    /\ audio_out = TRUE
    /\ custClosed = FALSE
    /\ custCloseCalls = 0
    /\ supervisor_room = 0
    /\ supervisor_session = 0
    /\ rooms = <<>>
    /\ sessions = <<>>
    /\ dials = <<>>
    /\ moves = <<>>
    /\ supervisorIn = ""
    /\ tasks = <<>>
    /\ last = NoTask
    /\ invoked = 0
    /\ faults = 0

\* the transfer tool becomes callable after some dialogue
Init ==
    /\ sip_trunk_id \in {"", "T1"}
    /\ supervisor_contact \in {"", "+1000"}
    /\ history = SampleHistory
    /\ Constructed

Next ==
    \/ \E f \in HoldFaults : start_transfer(f)
    \/ \E t \in DOMAIN tasks, ok \in BOOLEAN : unavailable_say_return(t, ok)
    \/ \E t \in DOMAIN tasks, ok, tok, fs \in BOOLEAN, fe \in EnableFaults :
          hold_say_return(t, ok, tok, fs, fe)
    \/ \E t \in DOMAIN tasks, ok, fs \in BOOLEAN, fe \in EnableFaults,
          bf \in BriefFaults(history) :
          connect_return(t, ok, bf, fs, fe)
    \/ \E t \in DOMAIN tasks, ok, fs \in BOOLEAN, fe \in EnableFaults :
          agent_start_return(t, ok, fs, fe)
    \/ \E t \in DOMAIN tasks, ok, fs \in BOOLEAN, fe \in EnableFaults :
          dial_return(t, ok, fs, fe)
    \/ \E t \in DOMAIN tasks, ok \in BOOLEAN : sf_say_return(t, ok)
    \/ \E t \in DOMAIN tasks, ok \in BOOLEAN : sf_aclose_return(t, ok)
    \/ \E t \in DOMAIN tasks, fs \in BOOLEAN, fe \in EnableFaults :
          run_set_supervisor_failed(t, fs, fe)
    \/ \E s \in DOMAIN sessions, fs \in BOOLEAN, fe \in EnableFaults :
          voicemail_detected(s, fs, fe)
    \/ \E r \in DOMAIN rooms : disconnected(r)
    \/ \E s \in DOMAIN sessions, fs \in BOOLEAN, fe \in EnableFaults :
          merge_calls(s, fs, fe)
    \/ \E t \in DOMAIN tasks, ok, fs \in BOOLEAN, fe \in EnableFaults :
          move_return(t, ok, fs, fe)
    \/ \E t \in DOMAIN tasks, ok, fs \in BOOLEAN, fe \in EnableFaults :
          farewell_return(t, ok, fs, fe)
    \/ \E t \in DOMAIN tasks, ok, closed, fs \in BOOLEAN, fe \in EnableFaults :
          cust_aclose_return(t, ok, closed, fs, fe)
    \/ \E t \in DOMAIN tasks, ok \in BOOLEAN : sup_aclose_return(t, ok)

Spec == Init /\ [][Next]_vars

----------------------------------------------------------------------------
(* The hold controller called directly: start_hold and stop_hold are methods of
   SessionManager, and their contract is stated for every sequence of calls. *)

HoldCall(kind, out, n) ==
    [NoTask EXCEPT !.kind = kind, !.pc = "done", !.out = out, !.nfail = n]

\* start_hold(); any of its three calls may raise, and the exception propagates
call_start_hold(f) ==
    /\ Len(handles) < MaxHandles
    /\ start_hold(f)
    /\ last' = HoldCall("start_hold", IF f = "none" THEN "returned" ELSE "raised",
                        IF f = "none" THEN 0 ELSE 1)
    /\ UNCHANGED <<configVars, customer_status, supervisor_status, custVars,
                   consultVars, sipVars, tasks, invoked, faults>>

\* stop_hold(); what its calls raise is caught and logged
call_stop_hold(fs, fe) ==
    /\ stop_hold(fs, fe)
    /\ last' = HoldCall("stop_hold", "returned", StopFaults(fs, fe))
    /\ UNCHANGED <<configVars, customer_status, supervisor_status, custVars,
                   consultVars, sipVars, tasks, invoked, faults>>

HoldNext ==
    \/ \E f \in HoldFaults : call_start_hold(f)
    \/ \E fs \in BOOLEAN, fe \in EnableFaults : call_stop_hold(fs, fe)

HoldSpec == Init /\ [][HoldNext]_vars

----------------------------------------------------------------------------
(* The summarization agent built from every dialogue history: the dialogue grows
   item by item, and SupervisorAgent(prev_ctx=customer_session.history) is
   constructed at some point of it. *)

BriefInit ==
    /\ sip_trunk_id = "T1"
    /\ supervisor_contact = "+1000"
    /\ history = <<>>
    /\ Constructed

\* the caller's session records one more item of the dialogue
customer_turn(it) ==
    /\ Len(history) < MaxTurns
    /\ history' = Append(history, it)
    /\ UNCHANGED <<configVars, customer_status, supervisor_status, holdVars, custClosed,
                   custCloseCalls, consultVars, sipVars, tasks, last, invoked, faults>>

\* the consult AgentSession and its SupervisorAgent are built from the present
\* history; bf: what raised while the briefing was built
build_supervisor_agent(bf) ==
    /\ sessions = <<>>
    /\ sessions' = Append(sessions, ConsultSession(bf))
    /\ UNCHANGED <<configVars, customer_status, supervisor_status, holdVars, custVars,
                   supervisor_room, supervisor_session, rooms, sipVars, tasks, last,
                   invoked, faults>>

BriefNext ==
    \/ \E it \in Turns : customer_turn(it)
    \/ \E bf \in BriefFaults(history) : build_supervisor_agent(bf)

BriefSpec == BriefInit /\ [][BriefNext]_vars

----------------------------------------------------------------------------
(* Properties *)

\* a start_transfer invocation that has passed the gate and not yet left the try block
InTransfer(t) ==
    /\ tasks[t].kind = "start_transfer"
    /\ tasks[t].pc \in {"hold_say", "connect", "agent_start", "dial"}

OnHold ==
    /\ hold_audio_handle # 0
    /\ handles[hold_audio_handle].playing
    /\ ~audio_in /\ ~audio_out

HoldReleased ==
    /\ hold_audio_handle = 0
    /\ \A h \in DOMAIN handles : ~handles[h].playing
    /\ audio_in /\ audio_out

Migrated == supervisorIn = customer_room_name

\* the invocation that began in the last step (read in the state after the step)
Newest == IF last.kind # "none" THEN last ELSE tasks[Len(tasks)]

\* C1: at most one start_transfer invocation is past the customer_status gate at a
\* time, and while one is, the gate stays closed (customer_status is escalated), so
\* no interleaving lets a second invocation reach hold, consult session or dial
\* until customer_status has been set back to active.
C1_OneTransferInFlight ==
    LET S == {t \in DOMAIN tasks : InTransfer(t)}
    IN /\ Cardinality(S) <= 1
       /\ S # {} => customer_status = "escalated"

\* a second start_transfer arrived while the first was suspended, and was refused
C1_Witness ==
    /\ last.kind = "start_transfer" /\ last.out = "not_active"
    /\ \E t \in DOMAIN tasks : InTransfer(t)

\* C2: whenever no invocation is in flight the caller is in exactly one of:
\* (a) on hold with supervisor_status summarizing, (b) both audio flags enabled, no
\* hold playback and the assistant leg open, (c) supervisor migrated into the caller
\* session and the assistant leg closed.
C2_CallerSafeWhenQuiescent ==
    Quiescent =>
        LET a == OnHold /\ supervisor_status = "summarizing"
            b == HoldReleased /\ ~custClosed
            c == Migrated /\ custClosed
        IN (a /\ ~b /\ ~c) \/ (~a /\ b /\ ~c) \/ (~a /\ ~b /\ c)

\* C3: when an invocation that ran set_supervisor_failed has returned,
\* customer_status is active and both caller audio flags are enabled (stated for
\* the invocations with which no other invocation interleaved, so that no new
\* transfer can be what changed customer_status).
C3_FailurePathRestoresCaller ==
    (last.pc = "done" /\ last.sfCalls > 0 /\ last.alone) =>
        customer_status = "active" /\ audio_in /\ audio_out

\* C4: a start_transfer that passed its preconditions, ran with no other invocation
\* interleaved, and in which exactly one call raised, that call being the token,
\* the connect, the agent start or the dial (the calls of the try block: the
\* invocation entered its except clause, and nothing else in it raised), returns without raising and ends with
\* supervisor_status failed, customer_status active, hold stopped (handle cleared,
\* its playback stopped, both audio flags enabled), the caller told of the failed
\* transfer, and the consult agent session, if one was created, closed once and
\* its reference cleared.
C4_SetupFailureRecovered ==
    (/\ last.kind = "start_transfer"
     /\ last.sfCalls = 1
     /\ last.nfail = 1
     /\ last.alone)
    => /\ last.out = "failed"
       /\ supervisor_status = "failed"
       /\ customer_status = "active"
       /\ hold_audio_handle = 0
       /\ ~handles[Len(handles)].playing /\ handles[Len(handles)].stops = 1
       /\ audio_in /\ audio_out
       /\ "failed" \in last.said
       /\ supervisor_session = 0
       /\ last.ndial = 1 => last.sess # 0
       /\ last.sess # 0 =>
             sessions[last.sess].closed /\ sessions[last.sess].closeCalls = 1

\* the dial raised in a start_transfer that ran alone, and start_transfer has returned
C4_Witness ==
    /\ last.kind = "start_transfer" /\ last.sfCalls = 1
    /\ last.nfail = 1 /\ last.alone /\ last.ndial = 1

\* C5: a start_transfer accepted with trunk and contact configured, in which no
\* call raised and with which nothing interleaved, ends with customer_status
\* escalated, the caller on hold, the consult room connected under the caller room
\* name plus "-consult", exactly one dial issued by it, into that room, under the
\* identity "supervisor-sip", waiting until answered, and supervisor_status
\* summarizing; and while such an invocation is still before the return of its
\* dial, supervisor_status is not summarizing.
C5_SuccessfulStart ==
    /\ (/\ last.kind = "start_transfer" /\ last.out = "summarizing"
        /\ last.nfail = 0 /\ last.alone)
       => /\ customer_status = "escalated"
          /\ OnHold
          /\ supervisor_room # 0
          /\ rooms[supervisor_room].connected
          /\ rooms[supervisor_room].name = customer_room_name \o "-consult"
          /\ rooms[supervisor_room].name # customer_room_name
          /\ last.ndial = 1
          /\ dials[Len(dials)] =
                [sip_trunk_id |-> "T1", sip_call_to |-> "+1000",
                 room_name |-> rooms[supervisor_room].name,
                 participant_identity |-> "supervisor-sip",
                 wait_until_answered |-> TRUE]
          /\ supervisorIn = rooms[supervisor_room].name
          /\ supervisor_session # 0 /\ sessions[supervisor_session].started
          /\ supervisor_status = "summarizing"
    /\ \A t \in DOMAIN tasks :
          (InTransfer(t) /\ tasks[t].alone) => supervisor_status # "summarizing"

C5_Witness ==
    /\ last.kind = "start_transfer" /\ last.out = "summarizing"
    /\ last.nfail = 0 /\ last.alone

\* C6: a merge_calls accepted in state summarizing with the caller on hold and the
\* consult agent session referenced (the state a successful start_transfer
\* leaves), in which no call raised and with which nothing interleaved, issues
\* exactly one migration, of "supervisor-sip", from the room the supervisor
\* was dialed into to the caller room, and ends with the supervisor in the caller
\* room, hold stopped, the farewell spoken, the assistant leg closed once, the
\* consult agent session closed once and supervisor_status merged.
C6_SuccessfulMerge ==
    (/\ last.kind = "merge_calls" /\ last.out = "merged"
     /\ last.nfail = 0 /\ last.alone /\ last.sess # 0 /\ last.stopped # 0)
    => /\ last.nmove = 1
       /\ moves[Len(moves)] =
             [room |-> dials[Len(dials)].room_name,
              identity |-> "supervisor-sip",
              destination_room |-> customer_room_name]
       /\ Migrated
       /\ hold_audio_handle = 0
       /\ ~handles[last.stopped].playing /\ handles[last.stopped].stops = 1
       /\ audio_in /\ audio_out
       /\ "farewell" \in last.said
       /\ custClosed /\ custCloseCalls = 1
       /\ supervisor_session = 0
       /\ sessions[last.sess].closed /\ sessions[last.sess].closeCalls = 1
       /\ supervisor_status = "merged"

C6_Witness ==
    /\ last.kind = "merge_calls" /\ last.out = "merged"
    /\ last.nfail = 0 /\ last.alone /\ last.sess # 0 /\ last.stopped # 0

\* C7: a merge_calls in which at most one call raised, and with which nothing
\* interleaved, ends either (i) with the supervisor migrated, the assistant leg
\* closed and supervisor_status merged, or (ii) with the supervisor not migrated,
\* the assistant leg open, hold released and supervisor_status failed.
C7_MergeAllOrNothing ==
    (/\ last.kind = "merge_calls" /\ last.out \in {"merged", "failed"}
     /\ last.nfail <= 1 /\ last.alone)
    => \/ Migrated /\ custClosed /\ supervisor_status = "merged"
       \/ /\ ~Migrated /\ ~custClosed /\ supervisor_status = "failed"
          /\ hold_audio_handle = 0 /\ audio_in /\ audio_out

\* C8: the caller-side assistant leg is closed, or its close has been requested,
\* only if a migration of the supervisor into the caller room has succeeded.
C8_AssistantLeavesOnlyAfterMigration ==
    (custClosed \/ custCloseCalls > 0) => (Len(moves) > 0 /\ Migrated)

C8_Witness == custClosed /\ Migrated

C10_NoEarlyMigration ==
    [][/\ Len(moves') > Len(moves) =>
             (supervisor_status = "summarizing" /\ supervisorIn # "")
       /\ (/\ invoked' # invoked
           /\ Newest'.kind = "merge_calls"
           /\ supervisor_status # "summarizing")
          => UNCHANGED <<moves, sessions, custVars>>]_vars

\* the summarization agent asked for the merge while start_transfer was still
\* suspended in its dial, and was refused
C10_Witness ==
    /\ last.kind = "merge_calls" /\ last.out = "not_summarizing" /\ last.nmove = 0
    /\ \E t \in DOMAIN tasks : tasks[t].kind = "start_transfer" /\ tasks[t].pc = "dial"
    /\ moves = <<>>

\* the variables a transfer attempt works on: both status fields, the hold state and
\* the consult side
attemptVars == <<customer_status, supervisor_status, holdVars, consultVars, sipVars>>

\* a step in which a start_transfer invocation began
TransferBegan == invoked' # invoked /\ Newest'.kind = "start_transfer"

\* C11: with the trunk identifier or the supervisor contact unset, every step of a
\* start_transfer invocation (its beginning and its return) leaves customer_status,
\* supervisor_status, the hold handle, the playbacks, both audio flags, the consult
\* room and session and the SIP requests unchanged; it speaks nothing but the
\* "unavailable" notice and issues no dial.
C11_UnconfiguredTransferIsNoOp ==
    [][(~(sip_trunk_id # "" /\ supervisor_contact # "") /\
        (TransferBegan \/ last'.kind = "start_transfer"))
       => /\ UNCHANGED attemptVars
          /\ LET rec == Newest'
             IN /\ rec.said \subseteq {"unavailable"}
                /\ rec.ndial = 0 /\ rec.sfCalls = 0
                /\ rec.pc \in {"unavail_say", "done"}
                /\ rec.pc = "done" /\ rec.nfail = 0
                      => rec.out = "unconfigured" /\ rec.said = {"unavailable"}]_vars

\* an unconfigured start_transfer has spoken the notice and returned
C11_Witness ==
    /\ ~(sip_trunk_id # "" /\ supervisor_contact # "")
    /\ last.kind = "start_transfer" /\ last.out = "unconfigured"
    /\ last.said = {"unavailable"}
    /\ customer_status = "active" /\ supervisor_status = "inactive"
    /\ hold_audio_handle = 0 /\ dials = <<>> /\ sessions = <<>>

\* C12: a start_transfer invocation that begins while customer_status is not active
\* returns at once: both status fields, the hold handle, the playbacks, the audio
\* flags, the consult room and session and the SIP requests are unchanged, no
\* session is created, no dial is issued and the invocation speaks nothing.
C12_GatedTransferChangesNothing ==
    [][(TransferBegan /\ customer_status # "active")
       => /\ UNCHANGED attemptVars
          /\ UNCHANGED <<custVars, faults>>
          /\ LET rec == Newest'
             IN /\ rec.pc = "done" /\ rec.out = "not_active"
                /\ rec.said = {} /\ rec.ndial = 0 /\ rec.sfCalls = 0
                /\ rec.nfail = 0]_vars

\* a start_transfer was refused while an attempt had reached summarizing
C12_Witness ==
    /\ last.kind = "start_transfer" /\ last.out = "not_active"
    /\ customer_status = "escalated" /\ supervisor_status = "summarizing"
    /\ Len(sessions) = 1 /\ Len(dials) = 1
    /\ OnHold

\* C13: merged is terminal: no step leaves supervisor_status = "merged".
C13_MergedIsTerminal ==
    [][supervisor_status = "merged" => supervisor_status' = "merged"]_vars

\* what a completed set_supervisor_failed leaves behind
FailedAndReleased ==
    /\ supervisor_status = "failed"
    /\ hold_audio_handle = 0
    /\ audio_in /\ audio_out
    /\ supervisor_session = 0

\* a step of a set_supervisor_failed call: it is entered, its notice returns, or it
\* returns (no invocation returns in the first two, so positions in tasks are kept)
SfStep ==
    \/ /\ last'.kind = "none"
       /\ \E u \in DOMAIN tasks' :
             /\ tasks'[u].pc = "sf_say"
             /\ tasks'[u].sfCalls > (IF u \in DOMAIN tasks THEN tasks[u].sfCalls ELSE 0)
    \/ /\ last'.kind = "none"
       /\ \E u \in DOMAIN tasks :
             tasks[u].pc = "sf_say" /\ tasks'[u].pc = "sf_aclose"
    \/ last'.pc = "done" /\ last'.sfCalls > 0

\* C14: set_supervisor_failed never raises, whichever of its external calls fail; a
\* call that ran alone and without faults leaves supervisor_status failed, the hold
\* handle empty, both audio flags enabled and the consult session reference empty;
\* and from such a state every step of a further call leaves all of that in place
\* and issues no further close of a consult session.
C14_FailureRecoveryIdempotent ==
    /\ [](last.pc = "done" /\ last.sfCalls > 0 => last.out = "failed")
    /\ [](last.pc = "done" /\ last.kind = "set_supervisor_failed"
            /\ last.alone /\ last.nfail = 0 => FailedAndReleased)
    /\ [][FailedAndReleased /\ SfStep
            => /\ FailedAndReleased'
               /\ \A s \in DOMAIN sessions :
                     sessions'[s].closeCalls = sessions[s].closeCalls]_vars

\* a second set_supervisor_failed has returned after a first one had closed the
\* consult session: it found no session to close
C14_Witness ==
    /\ last.pc = "done" /\ last.kind = "set_supervisor_failed" /\ last.out = "failed"
    /\ last.alone /\ last.sess = 0
    /\ FailedAndReleased
    /\ ~custClosed
    /\ Len(sessions) = 1 /\ sessions[1].closed /\ sessions[1].closeCalls = 1

\* C15: no exception escapes start_transfer (once past the gate and the configuration
\* check) or merge_calls: an invocation in which an external call raised returns
\* normally, having run set_supervisor_failed.
C15_NoExceptionEscapes ==
    (/\ last.pc = "done"
     /\ last.kind \in {"start_transfer", "merge_calls"}
     /\ TransferConfigured
     /\ last.nfail > 0)
    => last.out = "failed" /\ last.sfCalls > 0

\* a merge_calls that issued its migration request has returned, a consult room's
\* "disconnected" event arrived and the set_supervisor_failed it scheduled ran while
\* the merge was in flight, and nothing is in flight any more
MergeOverlappedDisconnect ==
    /\ last.kind = "merge_calls" /\ last.pc = "done" /\ last.nmove = 1
    /\ ~last.alone
    /\ Quiescent
    /\ \E r \in DOMAIN rooms : rooms[r].handler /\ ~rooms[r].connected

\* C16: when a consult room's disconnect event overlaps a merge_calls, the final
\* state has supervisor_status failed or merged, and the caller is either with the
\* migrated supervisor and the assistant leg closed, or back with the assistant
\* alone (no supervisor migrated, assistant leg open) with hold released.
C16_DisconnectDuringMergeConsistent ==
    MergeOverlappedDisconnect
    => /\ supervisor_status \in {"failed", "merged"}
       /\ \/ Migrated /\ custClosed
          \/ ~Migrated /\ ~custClosed /\ HoldReleased

\* C17: failed is not sticky.  A start_transfer that begins with supervisor_status
\* failed and customer_status active (trunk and contact configured) passes the gate;
\* and a start_transfer that followed a failed attempt, ran alone and had no
\* external call raise ends with supervisor_status summarizing, customer_status
\* escalated, the caller on hold, the new consult room connected, the new consult
\* session started and referenced, and the supervisor dialed into the consult room.
C17_FailedNotSticky ==
    /\ [][(/\ TransferBegan
            /\ supervisor_status = "failed" /\ customer_status = "active"
            /\ sip_trunk_id # "" /\ supervisor_contact # "")
           => customer_status' = "escalated" /\ Newest'.out # "not_active"]_vars
    /\ []((/\ last.kind = "start_transfer" /\ last.pc = "done"
           /\ last.out # "not_active"
           /\ last.alone /\ last.nfail = 0
           /\ Len(rooms) >= 2)
          => /\ last.out = "summarizing"
             /\ supervisor_status = "summarizing" /\ customer_status = "escalated"
             /\ OnHold
             /\ supervisor_room = Len(rooms) /\ rooms[supervisor_room].connected
             /\ rooms[supervisor_room].name = consult_room_name
             /\ supervisor_session = Len(sessions)
             /\ sessions[supervisor_session].started
             /\ ~sessions[supervisor_session].closed
             /\ last.ndial = 1 /\ dials[Len(dials)].room_name = consult_room_name
             /\ supervisorIn = consult_room_name)

\* a second attempt has reached summarizing after a first one failed
C17_Witness ==
    /\ last.kind = "start_transfer" /\ last.out = "summarizing"
    /\ last.alone /\ last.nfail = 0
    /\ Len(rooms) = 2 /\ faults = 1
    /\ supervisor_status = "summarizing" /\ customer_status = "escalated"
    /\ OnHold

\* C18: after any sequence of start_hold and stop_hold calls, stop() has been
\* called on every playback handle ever created, except possibly the current one.
C18_PreviousPlaybackStopped ==
    \A h \in DOMAIN handles : h # hold_audio_handle => handles[h].stops >= 1

\* C19: stop_hold never raises and leaves the hold handle empty; called with no
\* active hold it stops no playback handle and leaves customer_status and
\* supervisor_status unchanged; and a stop_hold call that follows a stop_hold call
\* whose own calls all succeeded changes nothing of the hold state.
C19_StopHoldIdempotent ==
    /\ [](last.kind = "stop_hold" => last.out = "returned" /\ hold_audio_handle = 0)
    /\ [][(hold_audio_handle = 0 /\ last'.kind = "stop_hold")
            => /\ handles' = handles /\ hold_audio_handle' = 0
               /\ UNCHANGED <<customer_status, supervisor_status>>]_vars
    /\ [][(last.kind = "stop_hold" /\ last.nfail = 0 /\ last'.kind = "stop_hold")
            => UNCHANGED holdVars]_vars

\* stop_hold has been called although no hold playback was ever started
C19_Witness ==
    /\ last.kind = "stop_hold" /\ last.out = "returned"
    /\ handles = <<>> /\ hold_audio_handle = 0
    /\ audio_in /\ audio_out

\* C20: aclose is called at most once on every consult-side agent session and at
\* most once on the caller-side assistant session.
C20_SessionsClosedAtMostOnce ==
    /\ custCloseCalls <= 1
    /\ \A s \in DOMAIN sessions : sessions[s].closeCalls <= 1

\* C21: the supervisor is migrated at most once per transfer: while a single
\* attempt has dialed the supervisor, at most one move_participant request has
\* been issued.
C21_MigratedAtMostOnce ==
    Len(dials) <= 1 => Len(moves) <= 1

\* C22: when a set_supervisor_failed that closed a consult session has completed
\* (running alone, nothing raising in it but the call that triggered it), that
\* session is closed, supervisor_session is empty and no consult room is still
\* connected.
C22_FailureReleasesConsultSide ==
    (/\ last.pc = "done" /\ last.sfCalls = 1 /\ last.sess # 0
     /\ last.alone
     /\ \/ last.kind = "start_transfer" /\ last.nfail = 1
        \/ last.kind = "set_supervisor_failed" /\ last.nfail = 0)
    => /\ sessions[last.sess].closed
       /\ supervisor_session = 0
       /\ \A r \in DOMAIN rooms : ~rooms[r].connected

\* C23: the briefing is the order-preserving filter of the history, stated by
\* induction on the history the agent was built from: for the empty history the
\* briefing is empty; for a history ending in item it, the briefing is the briefing
\* of the history without it, followed by "Customer: <text>" (role user) or
\* "Assistant: <text>" (any other role) when it is a non-empty message that is not
\* instructions, and by nothing when it is empty, a function call or instructions.
C23_BriefingIsOrderedFilter ==
    \A s \in DOMAIN sessions :
        LET a == sessions[s].agent
            h == a.prev_ctx
        IN a.instructions # STANDING_INSTRUCTIONS \o PLACEHOLDER
           => IF h = <<>>
              THEN a.instructions = STANDING_INSTRUCTIONS
              ELSE LET it == h[Len(h)]
                       before == prev_convo(SubSeq(h, 1, Len(h) - 1), 0)
                   IN IF /\ it.type = "message" /\ it.text # ""
                         /\ it.role \notin {"system", "developer"}
                      THEN a.instructions =
                              STANDING_INSTRUCTIONS \o before
                              \o (IF it.role = "user" THEN "Customer: " ELSE "Assistant: ")
                              \o it.text \o "\n"
                      ELSE a.instructions = STANDING_INSTRUCTIONS \o before

\* an agent was built from a history with a function call and an empty turn
\* between a caller turn and an assistant turn
C23_Witness ==
    /\ sessions # <<>>
    /\ sessions[1].agent.prev_ctx =
          <<Message("user", "u1"),
            [type |-> "function_call", role |-> "", text |-> "transfer_to_human"],
            Message("user", ""), Message("assistant", "a1")>>
    /\ sessions[1].agent.instructions =
          STANDING_INSTRUCTIONS \o "Customer: u1\nAssistant: a1\n"

\* C24: a failure while the briefing is built never fails the transfer.  The
\* instructions of every agent built are the standing instructions followed by the
\* briefing of the dialogue or by the placeholder alone; every step in which
\* supervisor_room.connect returns builds the session and its agent and goes on to
\* supervisor_session.start; and a start_transfer that ran alone, in which nothing
\* raised but the building of the briefing, ends with the supervisor dialed and
\* supervisor_status summarizing.
C24_BriefingFailureDegrades ==
    /\ [](\A s \in DOMAIN sessions :
            sessions[s].agent.instructions \in
               {STANDING_INSTRUCTIONS \o "Customer: u1\nAssistant: a1\n",
                STANDING_INSTRUCTIONS \o "(failed to copy conversation history)"})
    /\ [][\A t \in DOMAIN tasks :
             (/\ tasks[t].pc = "connect"
              /\ ~rooms[supervisor_room].connected
              /\ rooms'[supervisor_room].connected)
             => /\ tasks'[t].pc = "agent_start"
                /\ Len(sessions') = Len(sessions) + 1
                /\ supervisor_session' = Len(sessions')]_vars
    /\ []((/\ last.kind = "start_transfer" /\ last.pc = "done"
           /\ last.alone /\ last.nfail = 1
           /\ supervisor_session # 0
           /\ sessions[supervisor_session].agent.instructions =
                 STANDING_INSTRUCTIONS \o PLACEHOLDER)
          => /\ last.out = "summarizing" /\ last.ndial = 1
             /\ supervisor_status = "summarizing"
             /\ sessions[supervisor_session].started)

\* a transfer whose briefing could not be built has reached summarizing
C24_Witness ==
    /\ last.kind = "start_transfer" /\ last.out = "summarizing"
    /\ last.nfail = 1 /\ faults = 1
    /\ supervisor_session # 0
    /\ sessions[supervisor_session].agent.instructions =
          STANDING_INSTRUCTIONS \o PLACEHOLDER
    /\ Len(dials) = 1

\* C25: in every step in which the stop() of the current playback handle raises
\* and nothing else does, stop_hold still clears the hold handle and enables both
\* audio flags, and the set_supervisor_failed or merge_calls that called it goes on
\* to its next await (the failure notice or the farewell).
C25_StopFailureSwallowed ==
    [][\A h \in DOMAIN handles :
         (/\ handles'[h].stops = handles[h].stops + 1
          /\ handles'[h].playing
          /\ faults' = faults + 1)
         => /\ hold_audio_handle = h /\ hold_audio_handle' = 0
            /\ audio_in' /\ audio_out'
            /\ last'.kind = "none"
            /\ \E u \in DOMAIN tasks' :
                  /\ tasks'[u].pc \in {"sf_say", "farewell"}
                  /\ tasks'[u].nfail =
                        (IF u \in DOMAIN tasks THEN tasks[u].nfail ELSE 0) + 1]_vars

\* a set_supervisor_failed whose handle.stop() raised is waiting for its notice,
\* the handle cleared and the caller's audio enabled
C25_Witness ==
    /\ faults = 1
    /\ hold_audio_handle = 0 /\ audio_in /\ audio_out
    /\ \E h \in DOMAIN handles : handles[h].stops = 1 /\ handles[h].playing
    /\ \E u \in DOMAIN tasks : tasks[u].pc = "sf_say" /\ tasks[u].nfail = 1

\* C26: whenever supervisor_status is summarizing, customer_status is escalated.
C26_SummarizingImpliesEscalated ==
    supervisor_status = "summarizing" => customer_status = "escalated"

\* summarizing was reached by a second attempt while the failure path of the
\* first was still running
C26_Witness ==
    /\ supervisor_status = "summarizing" /\ customer_status = "escalated"
    /\ Len(rooms) = 2
    /\ \E u \in DOMAIN tasks : tasks[u].kind = "start_transfer" /\ tasks[u].sfCalls = 1

\* C27: whenever supervisor_status is summarizing, the caller is on hold (hold
\* handle set, both audio flags disabled) and supervisor_session is set.
C27_SummarizingImpliesHoldAndSession ==
    supervisor_status = "summarizing"
    => /\ hold_audio_handle # 0 /\ ~audio_in /\ ~audio_out
       /\ supervisor_session # 0

\* the set_supervisor_failed scheduled by the disconnect of the first attempt's
\* consult room starts running while a second attempt is between its gate and
\* its except clause (the second room has had no disconnect event)
StaleDisconnectHandled ==
    /\ Len(rooms) = 2
    /\ rooms[1].handler /\ ~rooms[1].connected
    /\ ~(rooms[2].handler /\ ~rooms[2].connected)
    /\ \E u \in DOMAIN tasks : InTransfer(u)
    /\ last'.kind = "none"
    /\ \E t \in DOMAIN tasks : tasks[t].pc = "sf_start" /\ tasks'[t].pc = "sf_say"

\* C28: an event of an earlier, failed attempt does not affect a later attempt:
\* handling the disconnect of the first attempt's consult room leaves
\* supervisor_status, the hold state and the consult session of the second
\* attempt unchanged.
C28_StaleEventIgnored ==
    [][StaleDisconnectHandled
       => UNCHANGED <<supervisor_status, holdVars, supervisor_session, sessions>>]_vars


====
